---- MODULE Spec2Model ----
(***************************************************************************)
(* Model of src/src/App.tsx: the Pokedex component.                        *)
(*                                                                         *)
(* State: the five useState cells of App, the query cache behind           *)
(* useQuery / prefetchQuery (one entry per identifier), the record the     *)
(* view got from useQuery on its last render, the pending timers           *)
(* (announcement debounce, navigation cooldown) and the speech output.     *)
(*                                                                         *)
(* One step of the model is one event of the browser's event loop: the     *)
(* handler or callback, the re-render it causes and the effects of that    *)
(* render.                                                                 *)
(*                                                                         *)
(* The query library is used with the settings App.tsx passes (none        *)
(* besides key and query function).  Whether cached data counts as stale   *)
(* when it is requested again depends on the client's staleTime and on     *)
(* elapsed time, neither of which App.tsx fixes: each request picks        *)
(* nondeterministically.  A fetch stands for the whole run of the query    *)
(* function including the library's sequential retries.  Refetches the     *)
(* library starts on its own (window focus, reconnect) and the eviction of *)
(* unused cache entries are not events of this model.                      *)
(*                                                                         *)
(* toggles, prefetched, nextBurst, burstFrom, spokenSince, autoSince and   *)
(* event record what has happened; no action of the program reads them.    *)
(***************************************************************************)
EXTENDS Integers, Sequences, FiniteSets, TLC

(***************************************************************************)
(* Bounds                                                                  *)
(***************************************************************************)
\* Stands for the literal 1000 of getRandomNum (src/src/App.tsx:38),
\* scaled down so that the candidate meets the identifiers navigation
\* reaches.
RandomCeil == 2
\* Grid on which Math.random() is sampled: the values k / RandomGrid.
RandomGrid == 3
\* Navigation actions accepted in one behaviour (caps imageKey).
MaxKey == 2
\* Identifiers 1..CatalogSize have a record at the remote service.
CatalogSize == 3
\* Calls of speakPokemonName counted between two announcement events.
MaxSpoken == 1
\* Clicks on the next button counted in one burst.
MaxBurst == 3
\* Fetches counted in flight for one identifier.
MaxInFlight == 2

MaxId == RandomCeil + MaxKey + 1
Ids == 0..(MaxId + 1)
Catalog == 1..CatalogSize
Locales == {"cs-CZ", "en-US"}
None == [none |-> TRUE]

VARIABLES
  pokemonId,        \* useState(1)
  randomId,         \* useState(getRandomNum())
  isButtonDisabled, \* useState(false)
  language,         \* useState('cs-CZ')
  imageKey,         \* useState(0)
  queries,          \* the query cache: identifier -> query state
  pokemon,          \* `data` returned by useQuery on the last render
  speakTimer,       \* the pending 500 ms timer of the announcement effect
  cooldownTimers,   \* number of pending 2500 ms cooldown timers
  event,            \* the navigation handler the last event ran, or "other"
  toggles,          \* parity of the number of toggleLanguage calls
  prefetched,       \* identifiers passed to prefetchQuery by the last event
  nextBurst,        \* next clicks issued since the lockout was opened from Idle
  burstFrom,        \* pokemonId when that burst began
  spokenSince,      \* speakPokemonName calls since the last announcement event
  autoSince         \* of these, the calls made by the debounce timer

vars == <<pokemonId, randomId, isButtonDisabled, language, imageKey, queries,
          pokemon, speakTimer, cooldownTimers, event, toggles, prefetched,
          nextBurst, burstFrom, spokenSince, autoSince>>

navState == <<pokemonId, randomId, isButtonDisabled, language, imageKey>>
history  == <<toggles, nextBurst, burstFrom, spokenSince, autoSince>>

Max(a, b) == IF a >= b THEN a ELSE b

(***************************************************************************)
(* Remote service and records                                              *)
(***************************************************************************)
\* The Pokemon object the service returns for identifier id.
Pokemon(id) == [id |-> id, name |-> <<"name", id>>]

\* fetchPokemon resolves for the identifiers the service knows.
FetchCanResolve(id) == id \in Catalog

(***************************************************************************)
(* getRandomNum: Math.floor(Math.random() * 1000), Math.random() = k/Grid  *)
(***************************************************************************)
getRandomNum(k) == (k * RandomCeil) \div RandomGrid

RandomSamples == 0..(RandomGrid - 1)

(***************************************************************************)
(* Query cache                                                             *)
(***************************************************************************)
EmptyQuery == [data |-> None, error |-> FALSE, inflight |-> 0]

\* query.fetch without joining a pending fetch (a second outbound request).
FetchNoDedup(q, id) ==
  IF q[id].inflight >= MaxInFlight THEN q
  ELSE [q EXCEPT ![id].inflight = @ + 1,
                 ![id].error = IF q[id].data = None THEN FALSE ELSE @]

\* query.fetch that keeps a failure as the key's result: no new fetch for a
\* key in the error status.
FetchErrorCached(q, id) ==
  IF q[id].inflight > 0 \/ q[id].error THEN q
  ELSE [q EXCEPT ![id].inflight = 1]

\* query.fetch: a requester arriving while a fetch for the key is pending
\* joins it; otherwise one outbound fetch starts.  Starting a fetch for a
\* key without data resets the error status.
Fetch(q, id) ==
  IF q[id].inflight > 0 THEN q
  ELSE [q EXCEPT ![id].inflight = 1,
                 ![id].error = IF q[id].data = None THEN FALSE ELSE @]

\* A request by useQuery (mount on a key) or prefetchQuery: fetch unless
\* the key holds data that is not stale.  Data of a key in the error status
\* is stale: only stale data is fetched again and a failure does not renew
\* it.
Request(q, id, stale) ==
  IF q[id].data # None /\ ~q[id].error /\ id \notin stale
  THEN q
  ELSE Fetch(q, id)

RECURSIVE RequestAll(_, _, _)
\* The requests for the identifiers of a sequence, in order.
RequestAll(q, ids, stale) ==
  IF ids = <<>> THEN q
  ELSE RequestAll(Request(q, Head(ids), stale), Tail(ids), stale)

\* isError as if a failure under any key were the view's.
isErrorAnyKey == \E id \in Ids : queries[id].error

\* isError of the useQuery result for the current key.
isError == queries[pokemonId].error

\* The buttons rendered although the query is in the error status.
ViewAlwaysRendered == TRUE

\* if (isError) return <div>Error fetching Pokemon</div>: the buttons are
\* rendered only when the query of the current key is not in error.
ViewRendered == ~isError

\* What the view shows of the record: nothing on the error screen.
Displayed == IF isError THEN None ELSE pokemon

\* The observer passes a result to the view as if every key were its own.
ObservedAnyKey(cur, id, rec, old) == rec

\* The useQuery observer is subscribed to the current key only: a result for
\* another key reaches the cache, not the view.
Observed(cur, id, rec, old) == IF id = cur THEN rec ELSE old

(***************************************************************************)
(* Render and effects after a state change                                 *)
(***************************************************************************)
\* The announcement effect without its dependency array: every render with a
\* record sets a timer.
AnnounceEffectNoDeps(newPokemon, newLang) ==
  IF newPokemon # None
  THEN [name |-> newPokemon.name, lang |-> newLang]
  ELSE None

\* The announcement effect (deps [pokemon, language]): its cleanup clears
\* the pending timer, then a timer is set when there is a record.
AnnounceEffect(newPokemon, newLang) ==
  IF newPokemon # pokemon \/ newLang # language
  THEN IF newPokemon # None
       THEN [name |-> newPokemon.name, lang |-> newLang]
       ELSE None
  ELSE speakTimer

\* An announcement event: a record becomes the view's record, or the locale
\* is toggled.
AnnounceEvent(newPokemon, newLang) ==
  \/ newPokemon # pokemon /\ newPokemon # None
  \/ newLang # language

\* Both prefetch effects run on every render.
PrefetchTargetsAlways(pid, rid) == <<pid + 1, rid>>

\* Only the effect that prefetches the next identifier exists.
PrefetchTargetsNextOnly(pid, rid) ==
  IF pid # pokemonId THEN <<pid + 1>> ELSE <<>>

\* The two prefetch effects, in source order: the first runs when pokemonId
\* changed (deps [pokemonId, queryClient]), the second when randomId changed
\* (deps [randomId, queryClient]).
PrefetchTargets(pid, rid) ==
  (IF pid # pokemonId THEN <<pid + 1>> ELSE <<>>)
    \o (IF rid # randomId THEN <<rid>> ELSE <<>>)

\* Re-render with the new state: useQuery on the (possibly new) key, then the
\* effects whose dependencies changed.
Render(pid, rid, lang, stale) ==
  LET q1 == IF pid # pokemonId THEN Request(queries, pid, stale) ELSE queries
      q3 == RequestAll(q1, PrefetchTargets(pid, rid), stale)
      p  == IF pid # pokemonId THEN queries[pid].data ELSE pokemon
  IN /\ queries' = q3
     /\ prefetched' = PrefetchTargets(pid, rid)
     /\ pokemon' = p
     /\ speakTimer' = AnnounceEffect(p, lang)
     /\ spokenSince' = IF AnnounceEvent(p, lang) THEN 0 ELSE spokenSince
     /\ autoSince' = IF AnnounceEvent(p, lang) THEN 0 ELSE autoSince

(***************************************************************************)
(* Initial state: first render and its effects                             *)
(***************************************************************************)
Init ==
  \E k \in RandomSamples :
    /\ pokemonId = 1
    /\ randomId = getRandomNum(k)
    /\ isButtonDisabled = FALSE
    /\ language = "cs-CZ"
    /\ imageKey = 0
    /\ queries = Fetch(Fetch(Fetch([i \in Ids |-> EmptyQuery], 1), 2),
                       getRandomNum(k))
    /\ pokemon = None
    /\ speakTimer = None
    /\ cooldownTimers = 0
    /\ event = "other"
    /\ toggles = 0
    /\ prefetched = <<2, getRandomNum(k)>>
    /\ nextBurst = 0
    /\ burstFrom = 0
    /\ spokenSince = 0
    /\ autoSince = 0

(***************************************************************************)
(* Navigation                                                              *)
(***************************************************************************)
\* The buttons accept clicks whatever the lockout flag says.
NavAlwaysEnabled == TRUE

\* disabled={isButtonDisabled} on the three navigation buttons.
NavEnabled == ~isButtonDisabled

\* prev without the floor.
NavTargetNoClamp(direction, prev) ==
  IF direction = "prev" THEN prev - 1 ELSE prev + 1

\* The updater of handleNavigation.
NavTarget(direction, prev) ==
  IF direction = "prev" THEN Max(1, prev - 1) ELSE prev + 1

\* handleRandom jumping to the freshly drawn number.
RandomTargetFresh(stored, fresh) == fresh

\* handleRandom: setPokemonId(randomId) reads the candidate of this render.
RandomTarget(stored, fresh) == stored

\* The handler without its setTimeout.
TimersAfterNavNone(n) == n

\* setTimeout(() => setIsButtonDisabled(false), 2500) in both handlers: one
\* more pending cooldown timer.
TimersAfterNav(n) == n + 1

handleNavigation(direction) ==
  /\ isButtonDisabled' = TRUE
  /\ pokemonId' = NavTarget(direction, pokemonId)
  /\ imageKey' = imageKey + 1
  /\ cooldownTimers' = TimersAfterNav(cooldownTimers)
  /\ UNCHANGED <<randomId, language, toggles>>
  /\ \E stale \in SUBSET {NavTarget(direction, pokemonId),
                          NavTarget(direction, pokemonId) + 1} :
       Render(NavTarget(direction, pokemonId), randomId, language, stale)

handleRandom ==
  \E k \in RandomSamples :
    /\ isButtonDisabled' = TRUE
    /\ pokemonId' = RandomTarget(randomId, getRandomNum(k))
    /\ imageKey' = imageKey + 1
    /\ cooldownTimers' = TimersAfterNav(cooldownTimers)
    /\ randomId' = getRandomNum(k)
    /\ UNCHANGED <<language, toggles>>
    /\ \E stale \in SUBSET {RandomTarget(randomId, getRandomNum(k)),
                            RandomTarget(randomId, getRandomNum(k)) + 1,
                            getRandomNum(k)} :
         Render(RandomTarget(randomId, getRandomNum(k)), getRandomNum(k),
                language, stale)

\* A click that the disabled button does not deliver.
Ignored ==
  /\ prefetched' = <<>>
  /\ UNCHANGED <<navState, queries, pokemon, speakTimer, cooldownTimers,
                 toggles, spokenSince, autoSince>>

ClickPrev ==
  /\ ViewRendered
  /\ event' = IF NavEnabled THEN "prev" ELSE "other"
  /\ nextBurst' = 0
  /\ burstFrom' = 0
  /\ IF NavEnabled
     THEN imageKey < MaxKey /\ handleNavigation("prev")
     ELSE Ignored

ClickNext ==
  /\ ViewRendered
  /\ event' = IF NavEnabled THEN "next" ELSE "other"
  /\ IF NavEnabled
     THEN /\ imageKey < MaxKey
          /\ handleNavigation("next")
          /\ nextBurst' = IF nextBurst < MaxBurst THEN nextBurst + 1
                          ELSE MaxBurst
          /\ burstFrom' = IF nextBurst = 0 THEN pokemonId ELSE burstFrom
     ELSE /\ Ignored
          /\ nextBurst' = IF nextBurst = 0 \/ nextBurst = MaxBurst
                          THEN nextBurst ELSE nextBurst + 1
          /\ burstFrom' = burstFrom

ClickRandom ==
  /\ ViewRendered
  /\ event' = IF NavEnabled THEN "random" ELSE "other"
  /\ nextBurst' = 0
  /\ burstFrom' = 0
  /\ IF NavEnabled
     THEN imageKey < MaxKey /\ handleRandom
     ELSE Ignored

\* setTimeout(() => setIsButtonDisabled(false), 2500)
CooldownElapsed ==
  /\ cooldownTimers > 0
  /\ cooldownTimers' = cooldownTimers - 1
  /\ isButtonDisabled' = FALSE
  /\ event' = "other"
  /\ nextBurst' = 0
  /\ burstFrom' = 0
  /\ speakTimer' = AnnounceEffect(pokemon, language)
  /\ prefetched' = <<>>
  /\ UNCHANGED <<pokemonId, randomId, language, imageKey, queries, pokemon,
                 toggles, spokenSince, autoSince>>

(***************************************************************************)
(* Locale                                                                  *)
(***************************************************************************)
\* A toggle that only ever switches to English.
toggleToEnglish(prev) == "en-US"

\* The updater of toggleLanguage.
toggledLanguage(prev) == IF prev = "cs-CZ" THEN "en-US" ELSE "cs-CZ"

toggleLanguage ==
  /\ ViewRendered
  /\ language' = toggledLanguage(language)
  /\ event' = "other"
  /\ toggles' = 1 - toggles
  /\ UNCHANGED <<pokemonId, randomId, isButtonDisabled, imageKey,
                 cooldownTimers, nextBurst, burstFrom>>
  /\ Render(pokemonId, randomId, toggledLanguage(language), {})

(***************************************************************************)
(* Speech                                                                  *)
(***************************************************************************)
\* speakPokemonName(name, lang), called by the timer (auto) or the button.
speakPokemonName(name, lang, auto) ==
  /\ spokenSince' = spokenSince + 1
  /\ autoSince' = IF auto THEN autoSince + 1 ELSE autoSince

\* The 500 ms timer of the announcement effect fires.
AnnounceTimerFires ==
  /\ speakTimer # None
  /\ speakPokemonName(speakTimer.name, speakTimer.lang, TRUE)
  /\ speakTimer' = None
  /\ event' = "other"
  /\ prefetched' = <<>>
  /\ UNCHANGED <<navState, queries, pokemon, cooldownTimers, toggles,
                 nextBurst, burstFrom>>

\* The speak button under the record.
ClickSpeak ==
  /\ ViewRendered
  /\ pokemon # None
  /\ spokenSince < MaxSpoken
  /\ speakPokemonName(pokemon.name, language, FALSE)
  /\ event' = "other"
  /\ prefetched' = <<>>
  /\ UNCHANGED <<navState, queries, pokemon, speakTimer, cooldownTimers,
                 toggles, nextBurst, burstFrom>>

(***************************************************************************)
(* Fetch completion and cache maintenance                                  *)
(***************************************************************************)
\* fetchPokemon(id) resolves: the record is stored under its key and the
\* observer of that key, if any, re-renders the view.
FetchSucceeds(id) ==
  /\ queries[id].inflight > 0
  /\ FetchCanResolve(id)
  /\ queries' = [queries EXCEPT ![id] = [data |-> Pokemon(id),
                                         error |-> FALSE,
                                         inflight |-> @.inflight - 1]]
  /\ LET p == Observed(pokemonId, id, Pokemon(id), pokemon)
     IN /\ pokemon' = p
        /\ speakTimer' = AnnounceEffect(p, language)
        /\ spokenSince' = IF AnnounceEvent(p, language) THEN 0
                          ELSE spokenSince
        /\ autoSince' = IF AnnounceEvent(p, language) THEN 0 ELSE autoSince
  /\ event' = "other"
  /\ prefetched' = <<>>
  /\ UNCHANGED <<navState, cooldownTimers, toggles, nextBurst, burstFrom>>

\* fetchPokemon(id) rejects (not found, transport): the key goes to the
\* error status and keeps the data it had.
FetchFails(id) ==
  /\ queries[id].inflight > 0
  /\ queries' = [queries EXCEPT ![id].error = TRUE,
                                ![id].inflight = @ - 1]
  /\ event' = "other"
  /\ prefetched' = <<>>
  /\ UNCHANGED <<navState, pokemon, speakTimer, cooldownTimers, history>>

Next ==
  \/ ClickPrev
  \/ ClickNext
  \/ ClickRandom
  \/ CooldownElapsed
  \/ toggleLanguage
  \/ AnnounceTimerFires
  \/ ClickSpeak
  \/ \E id \in Ids : FetchSucceeds(id)
  \/ \E id \in Ids : FetchFails(id)

Spec == Init /\ [][Next]_vars

(***************************************************************************)
(* Properties                                                              *)
(***************************************************************************)
RandomValues == {getRandomNum(k) : k \in RandomSamples}

\* C1: whenever the view displays a record, the record's id is the current
\* identifier; a result arriving for another identifier goes to the cache
\* and is not displayed.
C1_DisplayedIsCurrent ==
  Displayed # None => Displayed.id = pokemonId

\* After one navigation from 1 to 2 both records are cached and the view
\* displays the record of 2.
C1_Witness ==
  /\ imageKey = 1
  /\ pokemonId = 2
  /\ queries[1].data = Pokemon(1)
  /\ Displayed = Pokemon(2)

\* C2: for every identifier at most one outbound fetch is in flight.
C2_OneFetchPerId ==
  \A id \in Ids : queries[id].inflight <= 1

\* The first render requested identifier 1 twice (the view's query and the
\* prefetch of the candidate 1); a next action then made identifier 2
\* current while the fetch started by its prefetch is pending, and the
\* view's query joined it.
C2_Witness ==
  /\ event = "next"
  /\ imageKey = 1
  /\ randomId = 1
  /\ pokemonId = 2
  /\ queries[1].inflight = 1
  /\ queries[2].data = None
  /\ queries[2].inflight = 1

\* C3: from a state in which the lockout flag is set, no step runs a
\* navigation handler: the current identifier, the random candidate and
\* imageKey keep their values.
C3_LockedRejects ==
  [][isButtonDisabled =>
       /\ pokemonId' = pokemonId
       /\ randomId' = randomId
       /\ imageKey' = imageKey
       /\ event' = "other"]_vars

\* A second next click was issued while the lockout of the first was on.
C3_Witness ==
  /\ isButtonDisabled
  /\ nextBurst = 2
  /\ pokemonId = burstFrom + 1

\* C4: the current identifier is at least 1 in every reachable state.
C4_CurrentAtLeastOne ==
  pokemonId >= 1

\* C5: the random candidate r satisfies 1 <= r < 1000 (RandomCeil in the
\* model) in every reachable state.
C5_CandidateInRange ==
  1 <= randomId /\ randomId < RandomCeil

\* C6: a step that runs handleRandom starts in Idle, sets the current
\* identifier to the candidate stored before the step, stores a drawn number
\* as the new candidate and sets the lockout flag.
C6_RandomJump ==
  [][(event' = "random" /\ imageKey' # imageKey) =>
       /\ ~isButtonDisabled
       /\ pokemonId' = randomId
       /\ randomId' \in RandomValues
       /\ isButtonDisabled']_vars

\* A random action went to the stored candidate 1 while the new draw is 0.
C6_Witness ==
  /\ event = "random"
  /\ pokemonId = 1
  /\ randomId = 0
  /\ isButtonDisabled

\* C7: a step that runs handleNavigation('prev') sets the current identifier
\* to max(1, current - 1); one that runs handleNavigation('next') sets it to
\* current + 1.
C7_PrevNext ==
  [][/\ (event' = "prev" /\ imageKey' # imageKey) =>
          pokemonId' = IF pokemonId - 1 >= 1 THEN pokemonId - 1 ELSE 1
     /\ (event' = "next" /\ imageKey' # imageKey) =>
          pokemonId' = pokemonId + 1]_vars

\* The first navigation action is prev, at identifier 1, and the identifier
\* is still 1.
C7_Witness ==
  /\ event = "prev"
  /\ imageKey = 1
  /\ pokemonId = 1

\* C8 as stated: after three next clicks within one cooldown window that
\* began at identifier c in Idle, the current identifier is c + 3.
C8_ThreeNextAddThree ==
  nextBurst = 3 => pokemonId = burstFrom + 3

\* C8 amended: after one, two or three next clicks within one cooldown
\* window that began at identifier c in Idle, the current identifier is
\* c + 1: only the first click is accepted.
C8_ThreeNextAddOne ==
  nextBurst \in 1..3 => pokemonId = burstFrom + 1

\* Three next clicks were issued within one cooldown window.
C8_Witness ==
  /\ nextBurst = 3
  /\ isButtonDisabled

\* C9: a toggleLanguage step changes the locale to the other one of the two
\* and leaves the current identifier, the random candidate, the lockout flag
\* and imageKey alone; it is enabled in Idle and in Locked; the locale is one
\* of the two, the initial one after an even number of toggles.
C9_ToggleOnlyLocale ==
  /\ [][toggles' # toggles =>
          /\ language' # language
          /\ language' \in Locales
          /\ UNCHANGED <<pokemonId, randomId, isButtonDisabled, imageKey>>]_vars
  /\ [](language \in Locales)
  /\ [](toggles = 0 => language = "cs-CZ")
  /\ [](~isError => ENABLED toggleLanguage)

\* The locale was toggled an odd number of times, the lockout is on and the
\* toggle is enabled.
C9_Witness ==
  /\ toggles = 1
  /\ language = "en-US"
  /\ isButtonDisabled
  /\ ENABLED toggleLanguage

\* C10 as stated: between two consecutive announcement events (a record
\* becomes the view's record, the locale is toggled) speakPokemonName is
\* called at most once.
C10_SpokenAtMostOnce ==
  spokenSince <= 1

\* C10 amended: between two consecutive announcement events the debounce
\* timer calls speakPokemonName at most once; the speak button calls it
\* once more per click.
C10_AutoAtMostOnce ==
  autoSince <= 1

\* Since the last announcement event the timer has spoken once and the
\* button once.
C10_Witness ==
  /\ autoSince = 1
  /\ spokenSince = 2

\* A step in which the fetch for id ends in failure / in success.
FailStep(id) ==
  /\ queries'[id].inflight < queries[id].inflight
  /\ queries'[id].error

SuccessStep(id) ==
  /\ queries'[id].inflight < queries[id].inflight
  /\ ~queries'[id].error

\* A step in which id is requested: by the view's query on a new key or by a
\* prefetch effect.
RequestStep(id) ==
  \/ pokemonId' # pokemonId /\ id = pokemonId'
  \/ prefetched' # <<>> /\ \E i \in 1..Len(prefetched') : prefetched'[i] = id

\* C11: a failing fetch leaves the data of its key as it was (no result is
\* stored); a request for a key in the error status with no fetch pending
\* starts a new fetch; when the fetch of the current key succeeds the view
\* displays its record.
C11_FailureNotCached ==
  [][\A id \in Ids :
       /\ FailStep(id) => queries'[id].data = queries[id].data
       /\ (queries[id].error /\ queries[id].inflight = 0 /\ RequestStep(id))
            => queries'[id].inflight = 1
       /\ (SuccessStep(id) /\ id = pokemonId)
            => Displayed' = Pokemon(id)]_vars

\* The fetch of identifier 1 failed while 1 was not current; a next action
\* then made 1 current and the view's query started a new fetch for it.
C11_Witness ==
  /\ event = "next"
  /\ pokemonId = 1
  /\ queries[1].error
  /\ queries[1].inflight = 1

\* C12: when the fetch for an identifier other than the current one fails,
\* the view's error state does not change and the current identifier, the
\* random candidate, the lockout flag, the locale and imageKey keep their
\* values.
C12_PrefetchFailureSwallowed ==
  [][\A id \in Ids :
       (FailStep(id) /\ id # pokemonId) =>
          /\ isError' = isError
          /\ UNCHANGED <<pokemonId, randomId, isButtonDisabled, language,
                         imageKey>>]_vars

\* The prefetch of identifier 2 has failed while the view displays the
\* record of identifier 1.
C12_Witness ==
  /\ pokemonId = 1
  /\ queries[2].error
  /\ queries[2].inflight = 0
  /\ Displayed = Pokemon(1)

\* A step that takes the navigation controller from Idle into Locked.
IntoLocked == ~isButtonDisabled /\ isButtonDisabled'

\* C13 as stated: every transition into Locked increments imageKey by one
\* and issues two prefetch requests, one for the new current identifier + 1
\* and one for the random candidate.
C13_TwoPrefetches ==
  [][IntoLocked =>
       /\ imageKey' = imageKey + 1
       /\ prefetched' = <<pokemonId' + 1, randomId'>>]_vars

\* C13 amended: every transition into Locked increments imageKey by one; it
\* issues a prefetch for the new current identifier + 1 exactly when the
\* current identifier changed, followed by a prefetch for the random
\* candidate exactly when the candidate changed, and no other prefetch.
C13_PrefetchOnChange ==
  [][IntoLocked =>
       /\ imageKey' = imageKey + 1
       /\ prefetched' =
            (IF pokemonId' # pokemonId THEN <<pokemonId' + 1>> ELSE <<>>)
              \o (IF randomId' # randomId THEN <<randomId'>> ELSE <<>>)]_vars

\* A next action has issued the prefetch for current + 1 and none for the
\* random candidate, which it did not change.
C13_Witness ==
  /\ event = "next"
  /\ isButtonDisabled
  /\ prefetched = <<pokemonId + 1>>
  /\ randomId # pokemonId + 1

\* C14: the first render requests the prefetch of 2 and of the candidate;
\* a step that changes the current identifier to n requests the prefetch of
\* n + 1 and one that changes the candidate to r requests the prefetch of r;
\* whenever the cache holds the record of the current identifier and the
\* view is not in error, the view displays it, whatever prefetch is pending.
C14_PrefetchOnChange ==
  /\ pokemonId = 1 /\ prefetched = <<2, randomId>>
  /\ [][/\ pokemonId' # pokemonId =>
             \E i \in 1..Len(prefetched') : prefetched'[i] = pokemonId' + 1
        /\ randomId' # randomId =>
             \E i \in 1..Len(prefetched') : prefetched'[i] = randomId']_vars
  /\ []((queries[pokemonId].data # None /\ ~isError) =>
          Displayed = queries[pokemonId].data)

\* The record of identifier 1 is displayed while the two prefetches of the
\* first render, for 2 and for the candidate 0, are still pending.
C14_Witness ==
  /\ imageKey = 0
  /\ randomId = 0
  /\ Displayed = Pokemon(1)
  /\ queries[2].inflight = 1
  /\ queries[0].inflight = 1

\* A step in which the debounce timer calls speakPokemonName.
AutoAnnounceStep == autoSince' = autoSince + 1

\* C15: every automatic announcement speaks the name of the record that is
\* displayed and whose identifier is current when the timer fires; a timer
\* set for a record that is no longer displayed has been cancelled.
C15_AnnouncesDisplayed ==
  [][AutoAnnounceStep =>
       /\ Displayed # None
       /\ Displayed.id = pokemonId
       /\ speakTimer.name = Displayed.name]_vars

(***************************************************************************)
(* Liveness: the browser runs every timer callback whose delay has elapsed *)
(***************************************************************************)
FairSpec == Spec /\ WF_vars(CooldownElapsed)

\* C16: once the lockout flag is set, it is eventually cleared again, with
\* no user input required and whatever happens to the fetches: at every
\* moment the flag is clear now or at some later moment.
C16_EventuallyIdle ==
  []<>(~isButtonDisabled)

\* The cooldown of a navigation action has elapsed and the controller is
\* Idle again although the fetch for the new current identifier failed.
C16_Witness ==
  /\ imageKey = 1
  /\ ~isButtonDisabled
  /\ cooldownTimers = 0
  /\ pokemonId = 2
  /\ isError

\* C17: on the error screen none of prev, next, random and toggle-locale is
\* enabled, and no step taken from a state on the error screen changes the
\* current identifier, the random candidate or the locale.
C17_ErrorScreenInert ==
  /\ [](isError => /\ ~ENABLED ClickPrev
                   /\ ~ENABLED ClickNext
                   /\ ~ENABLED ClickRandom
                   /\ ~ENABLED toggleLanguage)
  /\ [][isError => UNCHANGED <<pokemonId, randomId, language>>]_vars

\* The view is on the error screen after a navigation action, Idle again,
\* with nothing in flight for the current identifier.
C17_Witness ==
  /\ isError
  /\ imageKey >= 1
  /\ ~isButtonDisabled
  /\ queries[pokemonId].inflight = 0
  /\ queries[pokemonId].data = None

\* C18: at most one cooldown timer is pending, and one is pending exactly
\* while the lockout flag is set, so the timer that clears a lockout is the
\* one its own navigation action started.
C18_OneCooldownTimer ==
  /\ cooldownTimers <= 1
  /\ isButtonDisabled <=> cooldownTimers = 1

\* The second navigation action's timer is pending after the first one's
\* has fired.
C18_Witness ==
  /\ imageKey = 2
  /\ cooldownTimers = 1
  /\ isButtonDisabled
====
